---- MODULE Spec2Model ----
(***************************************************************************)
(* Two-column PDF text extraction (txt_preprocessor/pdf_text_extractor.py  *)
(* and txt_preprocessor/pdf_to_txt.py) as a state machine.                 *)
(*                                                                         *)
(* A string is a sequence of one-character strings.  A TextBlock is a      *)
(* record [text, bbox, page_num, column] with bbox = [x0, y0, x1, y1].     *)
(* Coordinates are integers and every page width of the model is a         *)
(* multiple of 20, so that page_width / 20, x / bin_size and               *)
(* page_width * 0.5 are exact in the floating point arithmetic of the      *)
(* source; fewer than ten fragments are binned, so max_bin * 0.3 is never  *)
(* an integer and "bins[i] < threshold" is 10 * bins[i] < 3 * max_bin.     *)
(***************************************************************************)
EXTENDS Integers, Sequences, FiniteSets, TLC

VARIABLES
    pc,                \* position in main / convert_single_pdf / convert_pdf_to_txt
    doc,               \* the PDF: a sequence of pages, each a sequence of raw blocks
    exists,            \* os.path.exists(pdf_path)
    use_pdfplumber,    \* the --use-pdfplumber flag
    page_num,          \* loop counter of extract_text
    all_blocks,        \* extract_text: all_blocks
    column_boundary,   \* what _find_column_boundary returned to detect_columns
    ordered_blocks,    \* extract_text: ordered_blocks
    text,              \* the text being extracted, cleaned and written
    attempt,           \* 0 = not in the try, 1 = try body, 2 = except body (fallback)
    doc_state,         \* "none", "open", "closed": the fitz document of the extractor
    first_failed,      \* the try body raised
    fallback_attempts, \* times the except body ran extract_with_pdfplumber
    fallback_failed,   \* the except body raised
    conv,              \* convert_pdf_to_txt: "idle", "running", "returned", "raised"
    out_file,          \* content of output_path, None when never written
    result,            \* what convert_single_pdf returned to main
    success_logged,    \* convert_single_pdf logged the success lines
    exit_code,         \* process exit status, None while running
    once,              \* clean_extracted_text(text)
    twice              \* clean_extracted_text(clean_extracted_text(text))

vars == <<pc, doc, exists, use_pdfplumber, page_num, all_blocks, column_boundary,
          ordered_blocks, text, attempt, doc_state, first_failed, fallback_attempts,
          fallback_failed, conv, out_file, result, success_logged, exit_code,
          once, twice>>

\* Python's None, and a present value v (kept apart from None by its shape).
None == <<>>
Some(v) == <<v>>

-----------------------------------------------------------------------------
\* Bounds of the model.
MaxFrags == 5        \* fragments on the page given to detect_columns (SpecDetect)
MaxBlocks == 3       \* blocks given to reorder_text_blocks (SpecReorder)
MaxPageNum == 1      \* largest page_num in SpecReorder
MaxY0 == 1           \* largest y0 in SpecReorder
MaxTextLen == 6      \* length of the texts given to clean_extracted_text (SpecClean)
MaxPages == 2        \* pages of a document (SpecConvert)
MaxPageBlocks == 2   \* raw blocks of a page (SpecConvert)

-----------------------------------------------------------------------------
\* Generic helpers on sequences.
RECURSIVE JoinWith(_, _)
JoinWith(sep, parts) ==
    IF parts = <<>> THEN <<>>
    ELSE IF Len(parts) = 1 THEN parts[1]
    ELSE parts[1] \o sep \o JoinWith(sep, Tail(parts))

SeqsUpTo(S, n) == UNION {[1..k -> S] : k \in 0..n}

Max(S) == CHOOSE m \in S : \A k \in S : k <= m
Min(S) == CHOOSE m \in S : \A k \in S : m <= k

\* list.sort() on numbers: insertion of one element into an ascending sequence.
RECURSIVE InsertInt(_, _)
InsertInt(e, s) ==
    IF s = <<>> THEN <<e>>
    ELSE IF s[Len(s)] <= e THEN Append(s, e)
    ELSE Append(InsertInt(e, SubSeq(s, 1, Len(s) - 1)), s[Len(s)])

RECURSIVE SortInts(_)
SortInts(s) ==
    IF s = <<>> THEN <<>>
    ELSE InsertInt(s[Len(s)], SortInts(SubSeq(s, 1, Len(s) - 1)))

\* sorted(set): the elements of a set of integers in ascending order.
RECURSIVE SortedSet(_)
SortedSet(S) ==
    IF S = {} THEN <<>> ELSE <<Min(S)>> \o SortedSet(S \ {Min(S)})

-----------------------------------------------------------------------------
\* TextBlock and column detection.
TextBlock(t, x0, y0, x1, y1, p) ==
    [text |-> t, bbox |-> [x0 |-> x0, y0 |-> y0, x1 |-> x1, y1 |-> y1],
     page_num |-> p, column |-> 0]

NumBins == 20
MinPositions == 4

\* bins after the loop of lines 105-107, as a function on 0..19.
Histogram(x_positions, bin_size) ==
    [i \in 0..(NumBins - 1) |->
        Cardinality({k \in 1..Len(x_positions) :
            (IF x_positions[k] \div bin_size < NumBins - 1
             THEN x_positions[k] \div bin_size ELSE NumBins - 1) = i})]

\* bins[i] < threshold, with threshold = max_bin * 0.3.
BelowThreshold(count, max_bin) == 10 * count < 3 * max_bin

Valleys(bins) ==
    LET max_bin == Max({bins[i] : i \in 0..(NumBins - 1)})
    IN  SortedSet({i \in 1..(NumBins - 2) :
            /\ BelowThreshold(bins[i], max_bin)
            /\ ~BelowThreshold(bins[i - 1], max_bin)
            /\ ~BelowThreshold(bins[i + 1], max_bin)})

\* _find_column_boundary with 'len(x_positions) < 3' as its first test.
_find_column_boundary_lt3(x_positions, page_width) ==
    IF Len(x_positions) < 3 THEN None
    ELSE LET bin_size == page_width \div NumBins
             valleys == Valleys(Histogram(x_positions, bin_size))
         IN  IF valleys # <<>>
             THEN Some(valleys[(Len(valleys) \div 2) + 1] * bin_size)
             ELSE None

_find_column_boundary(x_positions, page_width) ==
    IF Len(x_positions) < MinPositions THEN None
    ELSE LET bin_size == page_width \div NumBins
             valleys == Valleys(Histogram(x_positions, bin_size))
         IN  IF valleys # <<>>
             THEN Some(valleys[(Len(valleys) \div 2) + 1] * bin_size)
             ELSE None

PageWidth(blocks) == Max({blocks[k].bbox.x1 : k \in 1..Len(blocks)})

XPositions(blocks) ==
    SortInts([k \in 1..Len(blocks) |-> blocks[k].bbox.x0])

\* The boundary detect_columns classifies with (lines 81-85).
BoundaryUsed(blocks) ==
    LET found == _find_column_boundary(XPositions(blocks), PageWidth(blocks))
    IN  IF found = None THEN PageWidth(blocks) \div 2 ELSE found[1]

\* Lines 88-92: the column of every block, given the boundary.
Classify(blocks, boundary) ==
    [k \in 1..Len(blocks) |->
        [blocks[k] EXCEPT !.column = IF blocks[k].bbox.x0 < boundary THEN 0 ELSE 1]]

detect_columns(blocks) ==
    IF blocks = <<>> THEN blocks
    ELSE Classify(blocks, BoundaryUsed(blocks))

-----------------------------------------------------------------------------
\* Reading-order reconstruction.

\* page_blocks.sort(key=lambda b: b.bbox[1]), reversed.
RECURSIVE InsertByY0Desc(_, _)
InsertByY0Desc(b, s) ==
    IF s = <<>> THEN <<b>>
    ELSE IF s[Len(s)].bbox.y0 >= b.bbox.y0 THEN Append(s, b)
    ELSE Append(InsertByY0Desc(b, SubSeq(s, 1, Len(s) - 1)), s[Len(s)])

RECURSIVE SortByY0Desc(_)
SortByY0Desc(s) ==
    IF s = <<>> THEN <<>>
    ELSE InsertByY0Desc(s[Len(s)], SortByY0Desc(SubSeq(s, 1, Len(s) - 1)))

\* page_blocks.sort(key=lambda b: b.bbox[1]): stable, ascending in y0.
RECURSIVE InsertByY0(_, _)
InsertByY0(b, s) ==
    IF s = <<>> THEN <<b>>
    ELSE IF s[Len(s)].bbox.y0 <= b.bbox.y0 THEN Append(s, b)
    ELSE Append(InsertByY0(b, SubSeq(s, 1, Len(s) - 1)), s[Len(s)])

RECURSIVE SortByY0Stable(_)
SortByY0Stable(s) ==
    IF s = <<>> THEN <<>>
    ELSE InsertByY0(s[Len(s)], SortByY0Stable(SubSeq(s, 1, Len(s) - 1)))

SortByY0(s) == SortByY0Stable(s)

\* pages[page_num] after the grouping loop of lines 131-135.
PageGroup(blocks, p) == SelectSeq(blocks, LAMBDA b : b.page_num = p)

PageNums(blocks) == {blocks[k].page_num : k \in 1..Len(blocks)}

\* pages.keys() in the dict's insertion order (first appearance in blocks).
RECURSIVE InsertionOrderKeys(_)
InsertionOrderKeys(blocks) ==
    IF blocks = <<>> THEN <<>>
    ELSE LET front == InsertionOrderKeys(SubSeq(blocks, 1, Len(blocks) - 1))
             p == blocks[Len(blocks)].page_num
         IN  IF \E k \in 1..Len(front) : front[k] = p THEN front ELSE Append(front, p)

\* sorted(pages.keys())
SortedPageKeys(blocks) == SortedSet(PageNums(blocks))

Y0s(blocks) == {blocks[k].bbox.y0 : k \in 1..Len(blocks)}

\* {block.bbox[1]: block for block in blocks} keeping the first block of a key.
YMapFirstWins(blocks) ==
    [y \in Y0s(blocks) |->
        blocks[Min({k \in 1..Len(blocks) : blocks[k].bbox.y0 = y})]]

\* {block.bbox[1]: block for block in blocks}: a later block replaces an
\* earlier one with the same key.
YMap(blocks) ==
    [y \in Y0s(blocks) |->
        blocks[Max({k \in 1..Len(blocks) : blocks[k].bbox.y0 = y})]]

RECURSIVE InterleaveRows(_, _, _)
InterleaveRows(all_y_coords, left_y_map, right_y_map) ==
    IF all_y_coords = <<>> THEN <<>>
    ELSE LET y == Head(all_y_coords)
         IN  (IF y \in DOMAIN left_y_map THEN <<left_y_map[y]>> ELSE <<>>)
             \o (IF y \in DOMAIN right_y_map THEN <<right_y_map[y]>> ELSE <<>>)
             \o InterleaveRows(Tail(all_y_coords), left_y_map, right_y_map)

_interleave_columns(left_blocks, right_blocks) ==
    LET left_y_map == YMap(left_blocks)
        right_y_map == YMap(right_blocks)
        all_y_coords == SortedSet(DOMAIN left_y_map \cup DOMAIN right_y_map)
    IN  InterleaveRows(all_y_coords, left_y_map, right_y_map)

\* One iteration of the loop of lines 140-155: what a page adds to the output.
ReorderPage(page_group) ==
    LET page_blocks == SortByY0(page_group)
        left_blocks == SelectSeq(page_blocks, LAMBDA b : b.column = 0)
        right_blocks == SelectSeq(page_blocks, LAMBDA b : b.column = 1)
    IN  IF left_blocks # <<>> /\ right_blocks # <<>>
        THEN _interleave_columns(left_blocks, right_blocks)
        ELSE page_blocks

RECURSIVE ReorderPages(_, _)
ReorderPages(blocks, keys) ==
    IF keys = <<>> THEN <<>>
    ELSE ReorderPage(PageGroup(blocks, Head(keys))) \o ReorderPages(blocks, Tail(keys))

reorder_text_blocks(blocks) ==
    IF blocks = <<>> THEN blocks
    ELSE ReorderPages(blocks, SortedPageKeys(blocks))

-----------------------------------------------------------------------------
\* Text normalisation (clean_extracted_text).

\* What \s, str.strip() and \d match among the characters of the model.
IsSpace(c) == c \in {" ", "\t", "\n"}
IsDigit(c) == c \in {"0", "1", "2", "3", "4", "5", "6", "7", "8", "9"}

\* Length of the longest prefix of t made of whitespace.
RECURSIVE SpaceRun(_)
SpaceRun(t) ==
    IF t = <<>> \/ ~IsSpace(t[1]) THEN 0 ELSE 1 + SpaceRun(Tail(t))

\* Where a match of \n\s*\n\s*\n that starts at t[1] ends, 0 when there is
\* none: the greedy \s* run to the last newline of the whitespace run.
MatchBlankLines(t) ==
    LET newlines == {k \in 1..SpaceRun(t) : t[k] = "\n"}
    IN  IF t # <<>> /\ t[1] = "\n" /\ Cardinality(newlines) >= 3
        THEN Max(newlines) ELSE 0

\* re.sub(r'\n\s*\n\s*\n', '\n\n', text)
RECURSIVE CollapseBlankLines(_)
CollapseBlankLines(t) ==
    IF t = <<>> THEN <<>>
    ELSE IF MatchBlankLines(t) > 0
         THEN <<"\n", "\n">> \o CollapseBlankLines(SubSeq(t, MatchBlankLines(t) + 1, Len(t)))
         ELSE <<t[1]>> \o CollapseBlankLines(Tail(t))

RECURSIVE BlankRun(_)
BlankRun(t) ==
    IF t = <<>> \/ t[1] \notin {" ", "\t"} THEN 0 ELSE 1 + BlankRun(Tail(t))

\* re.sub(r'[ \t]+', ' ', text)
RECURSIVE CollapseBlanks(_)
CollapseBlanks(t) ==
    IF t = <<>> THEN <<>>
    ELSE IF BlankRun(t) > 0
         THEN <<" ">> \o CollapseBlanks(SubSeq(t, BlankRun(t) + 1, Len(t)))
         ELSE <<t[1]>> \o CollapseBlanks(Tail(t))

\* re.sub(r'\n ', '\n', text)
RECURSIVE DropSpaceAfterNewline(_)
DropSpaceAfterNewline(t) ==
    IF t = <<>> THEN <<>>
    ELSE IF Len(t) >= 2 /\ t[1] = "\n" /\ t[2] = " "
         THEN <<"\n">> \o DropSpaceAfterNewline(SubSeq(t, 3, Len(t)))
         ELSE <<t[1]>> \o DropSpaceAfterNewline(Tail(t))

\* text.split('\n')
RECURSIVE SplitLines(_)
SplitLines(t) ==
    IF \A k \in 1..Len(t) : t[k] # "\n" THEN <<t>>
    ELSE LET n == Min({k \in 1..Len(t) : t[k] = "\n"})
         IN  <<SubSeq(t, 1, n - 1)>> \o SplitLines(SubSeq(t, n + 1, Len(t)))

\* line.strip()
Strip(line) ==
    LET kept == {k \in 1..Len(line) : ~IsSpace(line[k])}
    IN  IF kept = {} THEN <<>> ELSE SubSeq(line, Min(kept), Max(kept))

\* re.match(r'^\d+$', line) or re.match(r'^\d+\s*$', line), on a stripped line.
IsPageNumber(line) ==
    /\ line # <<>>
    /\ \E d \in 1..Len(line) :
        /\ \A k \in 1..d : IsDigit(line[k])
        /\ \A k \in (d + 1)..Len(line) : IsSpace(line[k])

\* 'len(line) < 5' in place of 'len(line) < 3'.
MinLineLenFive == 3 + 2
MinLineLen == 3

\* The loop of lines 294-307 with the tests made on the line as split, the
\* strip applied only to what is kept.
RECURSIVE KeptLinesStripLate(_)
KeptLinesStripLate(lines) ==
    IF lines = <<>> THEN <<>>
    ELSE LET line == Head(lines)
         IN  (IF line = <<>> \/ IsPageNumber(line) \/ Len(line) < MinLineLen
              THEN <<>> ELSE <<Strip(line)>>)
             \o KeptLinesStripLate(Tail(lines))

\* The loop of lines 294-307: cleaned_lines.
RECURSIVE KeptLinesLoop(_)
KeptLinesLoop(lines) ==
    IF lines = <<>> THEN <<>>
    ELSE LET line == Strip(Head(lines))
         IN  (IF line = <<>> \/ IsPageNumber(line) \/ Len(line) < MinLineLen
              THEN <<>> ELSE <<line>>)
             \o KeptLinesLoop(Tail(lines))

KeptLines(lines) == KeptLinesLoop(lines)

clean_extracted_text(t) ==
    IF t = <<>> THEN <<>>
    ELSE JoinWith(<<"\n">>,
            KeptLines(SplitLines(
                DropSpaceAfterNewline(CollapseBlanks(CollapseBlankLines(t))))))

-----------------------------------------------------------------------------
\* The document and the two extraction methods.

\* A raw block of page.get_text("dict"): has_lines is '"lines" in block' (an
\* image block has none), lines holds the text of each line (its spans joined).
RawBlock(has_lines, lines, x0, y0, x1, y1) ==
    [has_lines |-> has_lines, lines |-> lines,
     bbox |-> [x0 |-> x0, y0 |-> y0, x1 |-> x1, y1 |-> y1]]

RawBlocks ==
    { RawBlock(TRUE, << <<"a", "a", "a">> >>, 60, 1, 100, 2),
      RawBlock(TRUE, << <<"5">> >>, 300, 1, 600, 2),
      RawBlock(TRUE, << <<" ">> >>, 10, 2, 100, 3),
      RawBlock(FALSE, <<>>, 10, 1, 600, 3),
      RawBlock(TRUE, << <<"b", "b", "b">>, <<" ">>, <<"c", "c", " ">> >>, 10, 2, 280, 3) }

Docs == SeqsUpTo(SeqsUpTo(RawBlocks, MaxPageBlocks), MaxPages)

\* The body of the loop of lines 44-63 for one raw block: the TextBlocks it adds.
BlockOf(block, p) ==
    IF ~block.has_lines THEN <<>>
    ELSE LET text_lines == SelectSeq(block.lines, LAMBDA l : Strip(l) # <<>>)
             joined == JoinWith(<<" ">>, text_lines)
         IN  IF text_lines # <<>> /\ Strip(joined) # <<>>
             THEN <<[text |-> Strip(joined), bbox |-> block.bbox,
                     page_num |-> p, column |-> 0]>>
             ELSE <<>>

RECURSIVE BlocksOf(_, _)
BlocksOf(raw, p) ==
    IF raw = <<>> THEN <<>> ELSE BlockOf(Head(raw), p) \o BlocksOf(Tail(raw), p)

\* page_num is zero-based, as in the source.
extract_text_blocks(d, p) == BlocksOf(d[p + 1], p)

\* page.extract_text() of pdfplumber: the text lines of the page, top to bottom
\* as stored, one per line.
RECURSIVE RawLines(_)
RawLines(raw) ==
    IF raw = <<>> THEN <<>>
    ELSE (IF Head(raw).has_lines THEN Head(raw).lines ELSE <<>>) \o RawLines(Tail(raw))

PlumberPageText(page) == JoinWith(<<"\n">>, RawLines(page))

RECURSIVE PlumberParts(_)
PlumberParts(d) ==
    IF d = <<>> THEN <<>>
    ELSE (IF PlumberPageText(Head(d)) # <<>> THEN <<PlumberPageText(Head(d))>> ELSE <<>>)
         \o PlumberParts(Tail(d))

extract_with_pdfplumber(d) == JoinWith(<<"\n", "\n">>, PlumberParts(d))

\* "\n".join(block.text for block in ordered_blocks)
JoinBlocks(blocks) ==
    JoinWith(<<"\n">>, [k \in 1..Len(blocks) |-> blocks[k].text])

\* Truth value of the fitz document in 'if self.doc:': a Document defines
\* __len__ (its page count) and no __bool__.
DocTruthy(d) == Len(d) > 0

\* Truth value of convert_single_pdf's result in 'if text:' of main.
Truthy(r) == r # None /\ r[1] # <<>>

-----------------------------------------------------------------------------
\* Actions.  pc follows main (single-file path), convert_single_pdf,
\* convert_pdf_to_txt and extract_text.

\* main, line 229: the single-file branch calls convert_single_pdf.
MainSingle ==
    /\ pc = "main"
    /\ pc' = "single"
    /\ UNCHANGED <<doc, exists, use_pdfplumber, page_num, all_blocks, column_boundary,
                   ordered_blocks, text, attempt, doc_state, first_failed,
                   fallback_attempts, fallback_failed, conv, out_file, result,
                   success_logged, exit_code, once, twice>>

\* convert_single_pdf, lines 36-38: the file does not exist.
SingleMissing ==
    /\ pc = "single"
    /\ ~exists
    /\ result' = None
    /\ pc' = "main_check"
    /\ UNCHANGED <<doc, exists, use_pdfplumber, page_num, all_blocks, column_boundary,
                   ordered_blocks, text, attempt, doc_state, first_failed,
                   fallback_attempts, fallback_failed, conv, out_file,
                   success_logged, exit_code, once, twice>>

\* convert_single_pdf, line 47: the call of convert_pdf_to_txt.
SingleCall ==
    /\ pc = "single"
    /\ exists
    /\ conv' = "running"
    /\ pc' = "open"
    /\ UNCHANGED <<doc, exists, use_pdfplumber, page_num, all_blocks, column_boundary,
                   ordered_blocks, text, attempt, doc_state, first_failed,
                   fallback_attempts, fallback_failed, out_file, result,
                   success_logged, exit_code, once, twice>>

\* convert_pdf_to_txt, line 240: fitz.open, before the try statement; when it
\* raises, the exception leaves convert_pdf_to_txt at once.
Open ==
    /\ pc = "open"
    /\ \E ok \in BOOLEAN :
        IF ok
        THEN /\ doc_state' = "open"
             /\ attempt' = 1
             /\ pc' = IF use_pdfplumber THEN "plumber" ELSE "extract"
             /\ conv' = conv
        ELSE /\ conv' = "raised"
             /\ pc' = "single_except"
             /\ UNCHANGED <<doc_state, attempt>>
    /\ page_num' = 0
    /\ all_blocks' = <<>>
    /\ UNCHANGED <<doc, exists, use_pdfplumber, column_boundary, ordered_blocks, text,
                   first_failed, fallback_attempts, fallback_failed, out_file, result,
                   success_logged, exit_code, once, twice>>

\* An exception inside the try statement of lines 242-274: in the try body it
\* starts the except body (the pdfplumber fallback), in the except body it is
\* re-raised after the finally clause.
Raise ==
    IF attempt = 1
    THEN /\ first_failed' = TRUE
         /\ attempt' = 2
         /\ fallback_attempts' = fallback_attempts + 1
         /\ pc' = "plumber"
         /\ UNCHANGED fallback_failed
    ELSE /\ fallback_failed' = TRUE
         /\ pc' = "finally"
         /\ UNCHANGED <<first_failed, attempt, fallback_attempts>>

NoRaise == UNCHANGED <<first_failed, attempt, fallback_attempts, fallback_failed>>

\* extract_text, lines 184-187: one page of the loop; the fragment source may raise.
ExtractBlocks ==
    /\ pc = "extract"
    /\ page_num < Len(doc)
    /\ \E ok \in BOOLEAN :
        IF ok
        THEN /\ all_blocks' = all_blocks \o extract_text_blocks(doc, page_num)
             /\ page_num' = page_num + 1
             /\ pc' = pc
             /\ NoRaise
        ELSE /\ Raise
             /\ UNCHANGED <<all_blocks, page_num>>
    /\ UNCHANGED <<doc, exists, use_pdfplumber, column_boundary, ordered_blocks, text,
                   doc_state, conv, out_file, result, success_logged, exit_code,
                   once, twice>>

\* extract_text: the loop of lines 184-187 ends.
ExtractDone ==
    /\ pc = "extract"
    /\ page_num = Len(doc)
    /\ pc' = "detect"
    /\ UNCHANGED <<doc, exists, use_pdfplumber, page_num, all_blocks, column_boundary,
                   ordered_blocks, text, attempt, doc_state, first_failed,
                   fallback_attempts, fallback_failed, conv, out_file, result,
                   success_logged, exit_code, once, twice>>

\* extract_text, line 190: detect_columns over all_blocks.
DetectColumns ==
    /\ pc = "detect"
    /\ column_boundary' =
        IF all_blocks = <<>> THEN column_boundary
        ELSE _find_column_boundary(XPositions(all_blocks), PageWidth(all_blocks))
    /\ all_blocks' = detect_columns(all_blocks)
    /\ pc' = "reorder"
    /\ UNCHANGED <<doc, exists, use_pdfplumber, page_num, ordered_blocks, text, attempt,
                   doc_state, first_failed, fallback_attempts, fallback_failed, conv,
                   out_file, result, success_logged, exit_code, once, twice>>

\* extract_text, line 193: reorder_text_blocks.
Reorder ==
    /\ pc = "reorder"
    /\ ordered_blocks' = reorder_text_blocks(all_blocks)
    /\ pc' = "join"
    /\ UNCHANGED <<doc, exists, use_pdfplumber, page_num, all_blocks, column_boundary,
                   text, attempt, doc_state, first_failed, fallback_attempts,
                   fallback_failed, conv, out_file, result, success_logged, exit_code,
                   once, twice>>

\* extract_text, lines 196-200: the text returned to convert_pdf_to_txt.
JoinText ==
    /\ pc = "join"
    /\ text' = JoinBlocks(ordered_blocks)
    /\ pc' = "clean"
    /\ UNCHANGED <<doc, exists, use_pdfplumber, page_num, all_blocks, column_boundary,
                   ordered_blocks, attempt, doc_state, first_failed, fallback_attempts,
                   fallback_failed, conv, out_file, result, success_logged, exit_code,
                   once, twice>>

\* extract_with_pdfplumber, at line 244 (use_pdfplumber) or 263 (fallback).
Plumber ==
    /\ pc = "plumber"
    /\ \E ok \in BOOLEAN :
        IF ok
        THEN /\ text' = extract_with_pdfplumber(doc)
             /\ pc' = "clean"
             /\ NoRaise
        ELSE /\ Raise
             /\ UNCHANGED text
    /\ UNCHANGED <<doc, exists, use_pdfplumber, page_num, all_blocks, column_boundary,
                   ordered_blocks, doc_state, conv, out_file, result, success_logged,
                   exit_code, once, twice>>

\* Lines 249 and 264: text = clean_extracted_text(text).
Clean ==
    /\ pc = "clean"
    /\ text' = clean_extracted_text(text)
    /\ pc' = "write"
    /\ UNCHANGED <<doc, exists, use_pdfplumber, page_num, all_blocks, column_boundary,
                   ordered_blocks, attempt, doc_state, first_failed, fallback_attempts,
                   fallback_failed, conv, out_file, result, success_logged, exit_code,
                   once, twice>>

\* Lines 252-253 and 266-267: the text is written to output_path, or the
\* write raises.
Write ==
    /\ pc = "write"
    /\ \E ok \in BOOLEAN :
        IF ok
        THEN /\ out_file' = Some(text)
             /\ pc' = "finally"
             /\ NoRaise
        ELSE /\ Raise
             /\ UNCHANGED out_file
    /\ UNCHANGED <<doc, exists, use_pdfplumber, page_num, all_blocks, column_boundary,
                   ordered_blocks, text, doc_state, conv, result, success_logged,
                   exit_code, once, twice>>

\* Lines 276-277 and 219-222: the finally clause calls extractor.close(), which
\* closes the document only when 'self.doc' is true; then the call returns the
\* text or re-raises.
Finally ==
    /\ pc = "finally"
    /\ doc_state' = IF DocTruthy(doc) THEN "closed" ELSE doc_state
    /\ conv' = IF fallback_failed THEN "raised" ELSE "returned"
    /\ pc' = IF fallback_failed THEN "single_except" ELSE "single_ok"
    /\ UNCHANGED <<doc, exists, use_pdfplumber, page_num, all_blocks, column_boundary,
                   ordered_blocks, text, attempt, first_failed, fallback_attempts,
                   fallback_failed, out_file, result, success_logged, exit_code,
                   once, twice>>

\* convert_single_pdf, lines 48-51: success is logged and the text returned.
SingleOk ==
    /\ pc = "single_ok"
    /\ success_logged' = TRUE
    /\ result' = Some(text)
    /\ pc' = "main_check"
    /\ UNCHANGED <<doc, exists, use_pdfplumber, page_num, all_blocks, column_boundary,
                   ordered_blocks, text, attempt, doc_state, first_failed,
                   fallback_attempts, fallback_failed, conv, out_file, exit_code,
                   once, twice>>

\* convert_single_pdf, lines 52-54: the exception is logged, None returned.
SingleExcept ==
    /\ pc = "single_except"
    /\ result' = None
    /\ pc' = "main_check"
    /\ UNCHANGED <<doc, exists, use_pdfplumber, page_num, all_blocks, column_boundary,
                   ordered_blocks, text, attempt, doc_state, first_failed,
                   fallback_attempts, fallback_failed, conv, out_file, success_logged,
                   exit_code, once, twice>>

\* main, lines 230-234: 'if text:' decides between success and exit(1).
MainCheck ==
    /\ pc = "main_check"
    /\ exit_code' = IF Truthy(result) THEN Some(0) ELSE Some(1)
    /\ pc' = "exit"
    /\ UNCHANGED <<doc, exists, use_pdfplumber, page_num, all_blocks, column_boundary,
                   ordered_blocks, text, attempt, doc_state, first_failed,
                   fallback_attempts, fallback_failed, conv, out_file, result,
                   success_logged, once, twice>>

\* clean_extracted_text applied to a text, and to its own result.
CleanOnce ==
    /\ pc = "clean_once"
    /\ once' = clean_extracted_text(text)
    /\ pc' = "clean_twice"
    /\ UNCHANGED <<doc, exists, use_pdfplumber, page_num, all_blocks, column_boundary,
                   ordered_blocks, text, attempt, doc_state, first_failed,
                   fallback_attempts, fallback_failed, conv, out_file, result,
                   success_logged, exit_code, twice>>

CleanTwice ==
    /\ pc = "clean_twice"
    /\ twice' = clean_extracted_text(once)
    /\ pc' = "cleaned"
    /\ UNCHANGED <<doc, exists, use_pdfplumber, page_num, all_blocks, column_boundary,
                   ordered_blocks, text, attempt, doc_state, first_failed,
                   fallback_attempts, fallback_failed, conv, out_file, result,
                   success_logged, exit_code, once>>

-----------------------------------------------------------------------------
\* Specifications.

\* What every run starts with, whatever its inputs are.
Fresh ==
    /\ page_num = 0
    /\ column_boundary = None
    /\ ordered_blocks = <<>>
    /\ attempt = 0
    /\ doc_state = "none"
    /\ first_failed = FALSE
    /\ fallback_attempts = 0
    /\ fallback_failed = FALSE
    /\ conv = "idle"
    /\ out_file = None
    /\ result = None
    /\ success_logged = FALSE
    /\ exit_code = None
    /\ once = <<>>
    /\ twice = <<>>

Letters == <<"a", "b", "c", "d", "e", "f", "g", "h">>
FragText(k) == <<Letters[k], Letters[k], Letters[k]>>

\* The command line run on one file: main -> convert_single_pdf ->
\* convert_pdf_to_txt -> extract_text.
InitConvert ==
    /\ Fresh
    /\ pc = "main"
    /\ doc \in Docs
    /\ exists \in BOOLEAN
    /\ use_pdfplumber \in BOOLEAN
    /\ all_blocks = <<>>
    /\ text = <<>>

NextConvert ==
    \/ MainSingle
    \/ SingleMissing
    \/ SingleCall
    \/ Open
    \/ ExtractBlocks
    \/ ExtractDone
    \/ DetectColumns
    \/ Reorder
    \/ JoinText
    \/ Plumber
    \/ Clean
    \/ Write
    \/ Finally
    \/ SingleOk
    \/ SingleExcept
    \/ MainCheck

SpecConvert == InitConvert /\ [][NextConvert]_vars

\* detect_columns on the fragments of one page: (x0, x1) of each fragment is
\* drawn from Boxes, fragment k lies on row k.
Boxes == {<<10, 100>>, <<12, 280>>, <<15, 100>>, <<70, 280>>, <<300, 600>>, <<305, 600>>}

PageFragments ==
    {[k \in 1..Len(b) |-> TextBlock(FragText(k), b[k][1], k, b[k][2], k + 1, 0)] :
        b \in SeqsUpTo(Boxes, MaxFrags)}

InitDetect ==
    /\ Fresh
    /\ pc = "detect"
    /\ doc = <<>>
    /\ exists = TRUE
    /\ use_pdfplumber = FALSE
    /\ all_blocks \in PageFragments
    /\ text = <<>>

NextDetect == DetectColumns

SpecDetect == InitDetect /\ [][NextDetect]_vars

\* reorder_text_blocks on classified fragments of several pages in any order:
\* fragment k has the text FragText(k), which tells the fragments apart.
ClassifiedBlocks ==
    {[k \in 1..Len(c) |->
        [text |-> FragText(k),
         bbox |-> [x0 |-> IF c[k][3] = 0 THEN 10 ELSE 300, y0 |-> c[k][2],
                   x1 |-> IF c[k][3] = 0 THEN 100 ELSE 600, y1 |-> c[k][2] + 1],
         page_num |-> c[k][1], column |-> c[k][3]]] :
        c \in SeqsUpTo((0..MaxPageNum) \X (0..MaxY0) \X {0, 1}, MaxBlocks)}

InitReorder ==
    /\ Fresh
    /\ pc = "reorder"
    /\ doc = <<>>
    /\ exists = TRUE
    /\ use_pdfplumber = FALSE
    /\ all_blocks \in ClassifiedBlocks
    /\ text = <<>>

NextReorder == Reorder

SpecReorder == InitReorder /\ [][NextReorder]_vars

\* clean_extracted_text on every text of at most MaxTextLen characters over
\* newline, space, tab, a digit and a letter, and on the text of Scenario D.
Chars == {"\n", " ", "\t", "5", "a"}

ScenarioD ==
    <<"P", "a", "g", "e", "\n", "\n", "\n", "5", "\n", "\n",
      "R", "e", "a", "l", " ", "c", "o", "n", "t", "e", "n", "t", " ",
      "h", "e", "r", "e">>

RealContentHere ==
    <<"R", "e", "a", "l", " ", "c", "o", "n", "t", "e", "n", "t", " ",
      "h", "e", "r", "e">>

InitClean ==
    /\ Fresh
    /\ pc = "clean_once"
    /\ doc = <<>>
    /\ exists = TRUE
    /\ use_pdfplumber = FALSE
    /\ all_blocks = <<>>
    /\ text \in SeqsUpTo(Chars, MaxTextLen) \cup {ScenarioD}

NextClean ==
    \/ CleanOnce
    \/ CleanTwice

SpecClean == InitClean /\ [][NextClean]_vars

-----------------------------------------------------------------------------
\* Properties.

\* What reorder_text_blocks emitted for page p, and what it was given for it.
Emitted(p) == SelectSeq(ordered_blocks, LAMBDA b : b.page_num = p)
Given(p) == SelectSeq(all_blocks, LAMBDA b : b.page_num = p)

\* Position of a block in the input of reorder_text_blocks (texts are distinct).
InputPos(b) == CHOOSE k \in 1..Len(all_blocks) : all_blocks[k] = b

SingleColumnPage(p) ==
    \A i, j \in 1..Len(Given(p)) : Given(p)[i].column = Given(p)[j].column

TwoColumnPage(p) ==
    \E i, j \in 1..Len(Given(p)) : Given(p)[i].column = 0 /\ Given(p)[j].column = 1

\* C1 (as claimed): in extract_text the column of every fragment of page p is
\* the column that detect_columns assigns when run on page p's fragments alone.
C1_PerPageBoundary ==
    pc = "reorder" =>
        \A p \in 0..(Len(doc) - 1) :
            Given(p) = detect_columns(extract_text_blocks(doc, p))

\* The histogram _find_column_boundary builds for the page in all_blocks.
PageBins ==
    Histogram(XPositions(all_blocks), PageWidth(all_blocks) \div NumBins)

BinOf(x) ==
    IF x \div (PageWidth(all_blocks) \div NumBins) < NumBins - 1
    THEN x \div (PageWidth(all_blocks) \div NumBins) ELSE NumBins - 1

PeakBin == Max({PageBins[i] : i \in 0..(NumBins - 1)})

X0s == {all_blocks[k].bbox.x0 : k \in 1..Len(all_blocks)}

\* The left edges form two clusters separated by the gap of bins g1..g2: every
\* bin of the gap is below 30% of the peak, every bin from the leftmost
\* occupied one to the gap and from the gap to the rightmost occupied one is
\* not, and the page has the 4 fragments the detector asks for.
TwoClusters(g1, g2) ==
    /\ Len(all_blocks) >= MinPositions
    /\ g1 <= g2
    /\ \A i \in g1..g2 : BelowThreshold(PageBins[i], PeakBin)
    /\ \E x \in X0s : BinOf(x) < g1
    /\ \E x \in X0s : BinOf(x) > g2
    /\ \A i \in 0..(NumBins - 1) :
        (i \notin g1..g2 /\ (\E x \in X0s : BinOf(x) <= i) /\ (\E x \in X0s : BinOf(x) >= i))
            => ~BelowThreshold(PageBins[i], PeakBin)

\* C2 (as claimed): when the left edges of a page form two clusters separated by
\* a gap of one or several bins below 30% of the peak, _find_column_boundary
\* returns a boundary strictly between the largest x0 of the left cluster
\* and the smallest x0 of the right cluster.
C2_BoundaryBetweenClusters ==
    pc = "reorder" =>
        \A g1, g2 \in 1..(NumBins - 2) :
            TwoClusters(g1, g2) =>
                /\ column_boundary # None
                /\ \A x \in X0s : BinOf(x) < g1 => x < column_boundary[1]
                /\ \A x \in X0s : BinOf(x) > g2 => column_boundary[1] < x

\* C3 (as claimed): with fewer than 4 distinct left edges the detector returns
\* "no boundary", however many fragments share them.
C3_FewDistinctNoBoundary ==
    (pc = "reorder" /\ Cardinality(X0s) < 4) => column_boundary = None

\* C3 (amended): with fewer than 4 fragments on the page, counted with
\* repetition, the detector returns "no boundary".
C3_FewFragmentsNoBoundary ==
    (pc = "reorder" /\ Len(all_blocks) < 4) => column_boundary = None

\* C3 witness: three fragments whose histogram has a valley, and no boundary.
C3_Witness ==
    /\ pc = "reorder"
    /\ Len(all_blocks) = 3
    /\ Valleys(PageBins) # <<>>
    /\ column_boundary = None

\* C4: the page index never decreases along the output of reorder_text_blocks.
C4_PageOrder ==
    pc = "join" =>
        \A i, j \in 1..Len(ordered_blocks) :
            i < j => ordered_blocks[i].page_num <= ordered_blocks[j].page_num

\* C4 witness: a fragment of a later page came first in the input, and both
\* pages are in the output.
C4_Witness ==
    /\ pc = "join"
    /\ \E i, j \in 1..Len(all_blocks) :
        /\ i < j
        /\ all_blocks[i].page_num > all_blocks[j].page_num
        /\ \E m, n \in 1..Len(ordered_blocks) :
            /\ ordered_blocks[m] = all_blocks[j]
            /\ ordered_blocks[n] = all_blocks[i]

\* All of page p's fragments are emitted, each once.
EmitsAll(p) ==
    /\ Len(Emitted(p)) = Len(Given(p))
    /\ \A k \in 1..Len(Given(p)) : \E m \in 1..Len(Emitted(p)) : Emitted(p)[m] = Given(p)[k]

\* C5 (as claimed): on a single-column page all fragments are emitted and their
\* y0 is strictly ascending along the output, also when two of them share a y0.
C5_StrictlyAscending ==
    pc = "join" =>
        \A p \in PageNums(all_blocks) :
            SingleColumnPage(p) =>
                /\ EmitsAll(p)
                /\ \A i, j \in 1..Len(Emitted(p)) :
                    i < j => Emitted(p)[i].bbox.y0 < Emitted(p)[j].bbox.y0

\* C5 (amended): on a single-column page all fragments are emitted, their y0
\* never decreases along the output, and fragments with the same y0 keep the
\* order they had in the input.
C5_StableAscending ==
    pc = "join" =>
        \A p \in PageNums(all_blocks) :
            SingleColumnPage(p) =>
                /\ EmitsAll(p)
                /\ \A i, j \in 1..Len(Emitted(p)) :
                    i < j =>
                        \/ Emitted(p)[i].bbox.y0 < Emitted(p)[j].bbox.y0
                        \/ /\ Emitted(p)[i].bbox.y0 = Emitted(p)[j].bbox.y0
                           /\ InputPos(Emitted(p)[i]) < InputPos(Emitted(p)[j])

\* C5 witness: a single-column page with two fragments on the same y0 and a
\* third one above them that came later in the input.
C5_Witness ==
    /\ pc = "join"
    /\ \E p \in PageNums(all_blocks) :
        /\ SingleColumnPage(p)
        /\ \E i, j, k \in 1..Len(Given(p)) :
            /\ i < j
            /\ j < k
            /\ Given(p)[i].bbox.y0 = Given(p)[j].bbox.y0
            /\ Given(p)[k].bbox.y0 < Given(p)[i].bbox.y0

\* b is the last fragment of its page, side and y0 in the input.
LastOfRow(b) ==
    \A k \in 1..Len(all_blocks) :
        (/\ all_blocks[k].page_num = b.page_num
         /\ all_blocks[k].column = b.column
         /\ all_blocks[k].bbox.y0 = b.bbox.y0) => k <= InputPos(b)

\* C6: on a page with LEFT and RIGHT fragments the output is, for each y0 in
\* ascending order, the LEFT fragment of that y0 then the RIGHT one; of several
\* fragments of one side and y0 only the last of the input is emitted.
C6_MergeRule ==
    pc = "join" =>
        \A p \in PageNums(all_blocks) :
            TwoColumnPage(p) =>
                /\ \A m \in 1..Len(Emitted(p)) :
                    /\ \E k \in 1..Len(Given(p)) : Given(p)[k] = Emitted(p)[m]
                    /\ LastOfRow(Emitted(p)[m])
                /\ \A k \in 1..Len(Given(p)) :
                    LastOfRow(Given(p)[k]) =>
                        \E m \in 1..Len(Emitted(p)) : Emitted(p)[m] = Given(p)[k]
                /\ \A i, j \in 1..Len(Emitted(p)) :
                    i < j =>
                        \/ Emitted(p)[i].bbox.y0 < Emitted(p)[j].bbox.y0
                        \/ /\ Emitted(p)[i].bbox.y0 = Emitted(p)[j].bbox.y0
                           /\ Emitted(p)[i].column = 0
                           /\ Emitted(p)[j].column = 1

\* C6 witness: a two-column page where two fragments of one side share a y0,
\* so that one of them is dropped, and a row with both sides is emitted.
C6_Witness ==
    /\ pc = "join"
    /\ \E p \in PageNums(all_blocks) :
        /\ TwoColumnPage(p)
        /\ Len(Emitted(p)) < Len(Given(p))
        /\ \E i \in 1..(Len(Emitted(p)) - 1) :
            /\ Emitted(p)[i].bbox.y0 = Emitted(p)[i + 1].bbox.y0
            /\ Emitted(p)[i].column = 0
            /\ Emitted(p)[i + 1].column = 1

\* C7 (as claimed): the Normalizer turns the text of Scenario D into
\* "Real content here".
C7_ScenarioD_OnlyContent ==
    (pc = "cleaned" /\ text = ScenarioD) => once = RealContentHere

\* C7 (amended): the Normalizer turns the text of Scenario D into
\* "Page\nReal content here": the blank lines and the numeric line are dropped,
\* the four-character line "Page" is kept.
C7_ScenarioD_KeepsPage ==
    (pc = "cleaned" /\ text = ScenarioD) =>
        once = <<"P", "a", "g", "e", "\n">> \o RealContentHere

\* C7 witness: the Normalizer has run on the text of Scenario D.
C7_Witness ==
    /\ pc = "cleaned"
    /\ text = ScenarioD
    /\ once # text

\* C8: applying the Normalizer to its own result changes nothing.
C8_Idempotent ==
    pc = "cleaned" => twice = once

\* C8 witness: a text the Normalizer changes without emptying it: blank lines
\* collapsed or a line dropped, and a line kept.
C8_Witness ==
    /\ pc = "cleaned"
    /\ once # <<>>
    /\ Len(once) + 2 < Len(text)
    /\ \E k \in 1..(Len(text) - 2) : text[k] = "\n" /\ text[k + 1] = "\n" /\ text[k + 2] = "\n"

\* The document has no page, or no page yields a fragment.
NoFragments(d) ==
    \A p \in 0..(Len(d) - 1) : extract_text_blocks(d, p) = <<>>

\* C9 (as claimed): for a document without pages or fragments, or whose text
\* normalisation removes entirely, and when opening, extracting and writing do
\* not fail, the conversion yields the empty string, convert_pdf_to_txt does
\* not raise, convert_single_pdf reports success and main does not exit with 1.
C9_EmptyDocumentSucceeds ==
    (/\ pc = "exit"
     /\ exists
     /\ doc_state # "none"
     /\ ~first_failed
     /\ (NoFragments(doc) \/ text = <<>>))
        => /\ text = <<>>
           /\ conv = "returned"
           /\ success_logged
           /\ exit_code = Some(0)

\* C10 (as claimed): the pdfplumber fallback runs at most once per call and only
\* after the first attempt failed; the call raises exactly when the first
\* attempt and the fallback both failed; and when the call has returned or
\* raised the document is not left open.
C10_FallbackProtocol ==
    /\ fallback_attempts <= 1
    /\ (fallback_attempts > 0 => first_failed)
    /\ (conv \in {"returned", "raised"} =>
            /\ (conv = "raised" <=> (first_failed /\ fallback_failed))
            /\ doc_state # "open")

====
